---- MODULE Spec2Model ----
(***************************************************************************)
(* PyRelFit (src/PyRelFit/pyrelfit.py): the three-stage pipeline           *)
(*   filter_and_split -> merge_and_compute -> normalise                    *)
(* driven by pyrelfit(), each stage a multiprocessing Pool.map over tasks. *)
(*                                                                         *)
(* Numbers are exact rationals <<n, d>> (d > 0, lowest terms).  Within the *)
(* bounds every frequency is k/4 or k/2, which binary floating point holds *)
(* exactly, so the zero test of the weight's denominator agrees with the   *)
(* float arithmetic of the source.                                         *)
(***************************************************************************)
EXTENDS Integers, Sequences, FiniteSets, TLC

---------------------------------------------------------------------------
(* Bounds of the model                                                     *)

\* variant records in the input VCF, all chromosomes together
MaxRecs == 2
\* entries of the -p / --generation-pairs list
MaxPairs == 2
\* exceptions the environment (decoder, file system) raises in one run
MaxFaults == 1
\* -c / --cores: worker processes of each Pool
Cores == 2

\* 1e-8, the pseudo-frequency of line 117, is modelled as 1/PseudoDen: the
\* square of 10^8 does not fit TLC's 32-bit integers.  What the pipeline
\* depends on is kept: the value is not 0, it is below every frequency a
\* called genotype can give, and for every f1 >= 1/8 the denominator
\* 2*f1^2 - f1*f2^2 has the sign it has for 1e-8.
PseudoDen == 10

\* vcf.seqnames, in file order
Chroms == {1, 2}
\* vcf.samples
Samples == <<"a1", "a2", "b1", "b2">>
\* the ids of the generation specification "/1/a/2/b/", in dict order
GenOrder == <<"1", "2">>
Gens == {GenOrder[i] : i \in 1..Len(GenOrder)}
\* well-formed pair identifiers over the labels of the specification
GenPairs == {"1_2", "2_1"}
\* an entry that names a label the specification lacks, and one without "_"
BadPairs == {"3_1", "12"}
AllPairs == GenPairs \cup BadPairs

---------------------------------------------------------------------------
(* Strings                                                                 *)

\* s.startswith(c), s.endswith(c)
StartsWith(s, c) == Len(s) >= Len(c) /\ SubSeq(s, 1, Len(c)) = c
EndsWith(s, c) == Len(s) >= Len(c) /\ SubSeq(s, Len(s) - Len(c) + 1, Len(s)) = c

\* s.strip(c) for a one-character c
RECURSIVE Strip(_, _)
Strip(s, c) ==
    IF s # "" /\ StartsWith(s, c) THEN Strip(SubSeq(s, 2, Len(s)), c)
    ELSE IF s # "" /\ EndsWith(s, c) THEN Strip(SubSeq(s, 1, Len(s) - 1), c)
    ELSE s

\* s.split(sep) for a one-character sep
RECURSIVE Split(_, _)
Split(s, sep) ==
    LET at == {i \in 1..Len(s) : SubSeq(s, i, i) = sep}
    IN  IF at = {} THEN <<s>>
        ELSE LET i == CHOOSE a \in at : \A b \in at : a <= b
             IN  <<SubSeq(s, 1, i - 1)>> \o Split(SubSeq(s, i + 1, Len(s)), sep)

\* re.compile(pattern).search(sample), for a pattern of letters and digits
Search(pattern, sample) ==
    \E i \in 1..(Len(sample) - Len(pattern) + 1) :
        SubSeq(sample, i, i + Len(pattern) - 1) = pattern

\* pair.split("_")
SplitPair(pair) == Split(pair, "_")

---------------------------------------------------------------------------
(* Exact rational arithmetic                                               *)

Abs(x) == IF x < 0 THEN -x ELSE x

RECURSIVE Gcd(_, _)
Gcd(a, b) == IF b = 0 THEN a ELSE Gcd(b, a % b)

\* n/d in lowest terms with a positive denominator (d # 0)
Rat(n, d) ==
    LET g == Gcd(Abs(n), Abs(d))
        s == IF d < 0 THEN -1 ELSE 1
    IN  <<(s * n) \div g, (s * d) \div g>>

Zero == <<0, 1>>
One == <<1, 1>>
RMul(x, y) == Rat(x[1] * y[1], x[2] * y[2])
RSub(x, y) == Rat(x[1] * y[2] - y[1] * x[2], x[2] * y[2])
RDiv(x, y) == Rat(x[1] * y[2], x[2] * y[1])
RLess(x, y) == x[1] * y[2] < y[1] * x[2]
RLeq(x, y) == x[1] * y[2] <= y[1] * x[2]
\* Python's max(a, b)
RMax(a, b) == IF RLess(a, b) THEN b ELSE a

---------------------------------------------------------------------------
(* The input VCF: a catalogue of sites.  Each generation has two samples;  *)
(* gt gives cyvcf2's num_called, num_het, num_hom_alt over the samples of  *)
(* a generation.                                                           *)

Geno(called, het, hom) == [num_called |-> called, num_het |-> het, num_hom_alt |-> hom]

Site(snp, alt, g1, g2) ==
    [is_snp |-> snp, ALT |-> alt, REF |-> "A",
     gt |-> [g \in Gens |-> IF g = "1" THEN g1 ELSE g2]]

Sites ==
    { Site(TRUE, <<"T">>, Geno(2, 0, 2), Geno(2, 0, 2)),   \* 4/4 and 4/4
      Site(TRUE, <<"T">>, Geno(2, 1, 0), Geno(2, 0, 2)),   \* 1/4 and 4/4
      Site(TRUE, <<"T">>, Geno(2, 0, 1), Geno(2, 0, 2)),   \* 2/4 and 4/4
      Site(TRUE, <<"T">>, Geno(2, 0, 1), Geno(0, 0, 0)),   \* 2/4 and 0/0
      Site(FALSE, <<"TT">>, Geno(2, 0, 1), Geno(2, 0, 1)), \* not a SNP
      Site(TRUE, <<>>, Geno(2, 0, 0), Geno(2, 0, 0)) }     \* no ALT

\* sequences over S of length at most n
RECURSIVE SeqsUpTo(_, _)
SeqsUpTo(S, n) ==
    IF n = 0 THEN {<<>>}
    ELSE LET shorter == SeqsUpTo(S, n - 1)
         IN  shorter \cup {Append(s, x) : s \in shorter, x \in S}

\* the VCFs of the model: at most MaxRecs records over the chromosomes
Sources ==
    {v \in [Chroms -> SeqsUpTo(Sites, MaxRecs)] : Len(v[1]) + Len(v[2]) <= MaxRecs}

\* the counts cyvcf2 can give for the samples of one generation
Genos ==
    LET n == Len(Samples) \div Len(GenOrder)
    IN  {Geno(called, het, hom) : called \in 0..n, het \in 0..n, hom \in 0..n} \cap
        {g \in [num_called : Nat, num_het : Nat, num_hom_alt : Nat] :
            g.num_het + g.num_hom_alt <= g.num_called}

\* the VCFs with one SNP on the first chromosome, of any genotype counts
GenotypeSources ==
    {[c \in Chroms |-> IF c = 1 THEN <<Site(TRUE, <<"T">>, g1, g2)>> ELSE <<>>] :
        g1 \in Genos, g2 \in Genos}

\* the VCFs with one record, on the first chromosome
OneRecordSources == {v \in Sources : Len(v[1]) = 1 /\ Len(v[2]) = 0}

\* the -p lists of the model (comma_separated splits any string)
PairLists == SeqsUpTo(GenPairs, MaxPairs) \ {<<>>}
\* the same, with entries the generation specification does not support
AnyPairLists == SeqsUpTo(AllPairs, MaxPairs) \ {<<>>}

\* the -g strings of the model: a well-formed one, one that is not delimited
\* by "/", one with an id that has no regex
GenSpecs == {"/1/a/2/b/", "1/a/2/b", "/1/a/2/"}

\* -g strings of two id/regex entries over the labels 1 and 2, with and
\* without the delimiters; the regex z matches no sample, the empty one all
AnyGenSpecs ==
    {pre \o id1 \o "/" \o re1 \o "/" \o id2 \o "/" \o re2 \o post :
        pre \in {"", "/"}, post \in {"", "/"},
        id1 \in {"1", "2"}, id2 \in {"1", "2"},
        re1 \in {"a", "z"}, re2 \in {"b", "z", ""}}

---------------------------------------------------------------------------
VARIABLES
    pc,             \* where pyrelfit() is
    vcf,            \* the input VCF: chromosome -> sequence of sites
    generations,    \* the -g string
    generation_pairs,
    OUTLIERS_ENABLED,
    GRAPHICS_ENABLED,
    faults,         \* exceptions the environment has raised so far
    gens,           \* the dict parse_generations returned
    ptask,          \* filter_split_unit tasks: state of each
    bucket,         \* temp_dir/tmp.<chrom>.<gen>.csv
    bucketWriters,  \* history: the Partitioner tasks that opened each bucket
    mtasks,         \* the task list of merge_and_compute
    mtask,          \* process_pair tasks: state of each
    ino,            \* the files of out_dir: inode -> content
    rfile,          \* out_dir/<chrom>.<pair>.csv: its inode, 0 if absent
    resWriters,     \* history: the merge-join tasks that opened each result file
    raw,            \* history: the rows each result file was last written with
                    \* before stage 3
    scale_list,     \* the dict list_to_dict_max returned
    ntasks,         \* the task list of normalise
    ntask,          \* normalize_file tasks: state of each
    tfile,          \* out_dir/<chrom>.<pair>.csv.tmp: its inode, 0 if absent
    tier,           \* out_dir/<group>.<chrom>.<pair>.csv
    png,            \* out_dir/<chrom>.<pair>.png: the result files that have one
    normWriters     \* history: the Normalizer tasks that opened each <file>.tmp

vars == <<pc, vcf, generations, generation_pairs, OUTLIERS_ENABLED, GRAPHICS_ENABLED,
          faults, gens, ptask, bucket, bucketWriters, mtasks, mtask, ino, rfile,
          resWriters, raw, scale_list, ntasks, ntask, tfile, tier, png, normWriters>>

inputs == <<vcf, generations, generation_pairs, OUTLIERS_ENABLED, GRAPHICS_ENABLED>>
stage1 == <<gens, ptask, bucket, bucketWriters>>
stage2 == <<mtasks, mtask, resWriters, raw, scale_list>>
stage3 == <<ntasks, ntask, tfile, tier, png, normWriters>>

---------------------------------------------------------------------------
(* Stage 1: filter_and_split / filter_split_unit                           *)

\* [sample for sample in samples if regex.search(sample)]
RECURSIVE Matching(_, _)
Matching(samples, regex) ==
    IF samples = <<>> THEN <<>>
    ELSE (IF Search(regex, Head(samples)) THEN <<Head(samples)>> ELSE <<>>)
         \o Matching(Tail(samples), regex)

\* d[key] = value on a dict kept as the sequence of its items: a key that is
\* there keeps its place
DictPut(d, key, value) ==
    IF \E i \in DOMAIN d : d[i].id = key
    THEN [i \in DOMAIN d |-> IF d[i].id = key THEN [id |-> key, samples |-> value] ELSE d[i]]
    ELSE Append(d, [id |-> key, samples |-> value])

\* gen_sample_map after the first n rounds of the loop of lines 49-53
RECURSIVE GenSampleMap(_, _, _)
GenSampleMap(samples, parts, n) ==
    IF n = 0 THEN <<>>
    ELSE DictPut(GenSampleMap(samples, parts, n - 1), parts[2 * n - 1],
                 Matching(samples, parts[2 * n]))

\* parse_generations(samples, generation_string)
parse_generations(samples, generation_string) ==
    IF ~StartsWith(generation_string, "/") \/ ~EndsWith(generation_string, "/")
    THEN [err |-> "ValueError", map |-> <<>>]
    ELSE LET parts == Split(Strip(generation_string, "/"), "/")
         IN  IF Len(parts) % 2 # 0
             THEN [err |-> "ValueError", map |-> <<>>]
             ELSE [err |-> "", map |-> GenSampleMap(samples, parts, Len(parts) \div 2)]

\* the chromosomes in ascending order
RECURSIVE SortedSeq(_)
SortedSeq(S) ==
    IF S = {} THEN <<>>
    ELSE LET m == CHOOSE x \in S : \A y \in S : x <= y
         IN  <<m>> \o SortedSeq(S \ {m})

\* tasks = [(vcf_path, c, gen, ...) for c in chromosomes for gen in gens.keys()]
SplitTasks ==
    LET cs == SortedSeq(Chroms)
        n == Len(GenOrder)
    IN  [i \in 1..(Len(cs) * n) |->
            [chrom |-> cs[((i - 1) \div n) + 1], gen |-> GenOrder[((i - 1) % n) + 1]]]

\* compute_counts(variant), for the samples of generation gen
compute_counts(variant, gen) ==
    LET g == variant.gt[gen]
    IN  [alt_count |-> g.num_het + g.num_hom_alt * 2, total |-> g.num_called * 2]

\* a loop that lacks the is_snp test of line 71
RECURSIVE BucketRowsAnyType(_, _, _, _)
BucketRowsAnyType(records, gen, lo, hi) ==
    IF lo > hi THEN <<>>
    ELSE LET variant == records[lo]
             rest == BucketRowsAnyType(records, gen, lo + 1, hi)
         IN  IF variant.ALT = <<>> THEN rest
             ELSE <<[Pos |-> lo, Ref |-> variant.REF, Alt |-> variant.ALT[1],
                     alt_count |-> compute_counts(variant, gen).alt_count,
                     total |-> compute_counts(variant, gen).total]>> \o rest

\* the rows the loop of filter_split_unit writes for records[lo..hi]
RECURSIVE BucketRows(_, _, _, _)
BucketRows(records, gen, lo, hi) ==
    IF lo > hi THEN <<>>
    ELSE LET variant == records[lo]
             rest == BucketRows(records, gen, lo + 1, hi)
         IN  IF ~variant.is_snp THEN rest
             ELSE IF variant.ALT = <<>> THEN rest
             ELSE LET c == compute_counts(variant, gen)
                  IN  <<[Pos |-> lo, Ref |-> variant.REF, Alt |-> variant.ALT[1],
                         alt_count |-> c.alt_count, total |-> c.total]>> \o rest

---------------------------------------------------------------------------
(* The files of out_dir.  A path names an inode; a process that has opened *)
(* a file holds the inode, whatever the path names later.                  *)

\* a chromosome of an earlier run on another VCF, absent from vcf.seqnames
OldChrom == 3
AllChroms == Chroms \cup {OldChrom}
ResultPaths == AllChroms \X AllPairs
\* no more tasks than this in stage 2
MaxTasks == Cardinality(Chroms) * MaxPairs
\* no more tasks than this in stage 3: each entry of the pair list may match
\* one more file than stage 2 wrote
MaxNormTasks == MaxTasks + MaxPairs
\* process_pair task j creates inode j, normalize_file task k inode
\* MaxTasks + k; the last inode is a file out_dir held before the run
OldInode == MaxTasks + MaxNormTasks + 1
Inodes == 1..OldInode
\* the rows of that file
OldRows == <<[Pos |-> 1, Ref |-> "A", Alt |-> "T", RF |-> <<1, 2>>]>>
\* what out_dir holds before the run: nothing, or the result file of
\* OldChrom for the pair 1_2
OldDirs == {{}, {<<OldChrom, "1_2">>}}
\* an empty file: no header line, no rows
NoContent == [hdr |-> FALSE, rows |-> <<>>]
\* {}
EmptyDict == [k \in {} |-> Zero]
\* the keys of outlier_groups (lines 152-157)
Groups == {"gt_8", "gt_6", "gt_4", "gt_2"}
\* a path that names no file
NoFile == [exists |-> FALSE, rows |-> <<>>]

\* open(path, "w"): an existing file is truncated, a missing one created
OpenW(files, path, fresh) == IF files[path] # 0 THEN files[path] ELSE fresh

\* a buffered writer that started at offset 0 flushes the lines it wrote
\* over what the file holds
Flush(old, hdr, rows) ==
    [hdr |-> hdr \/ old.hdr,
     rows |-> rows \o SubSeq(old.rows, Len(rows) + 1, Len(old.rows))]

\* the state in which pyrelfit() is entered, for inputs and an out_dir drawn
\* from the given sets
Start(sources, specs, lists, graphics, dirs) ==
    /\ pc = "start"
    /\ vcf \in sources
    /\ generations \in specs
    /\ generation_pairs \in lists
    /\ OUTLIERS_ENABLED \in BOOLEAN
    /\ GRAPHICS_ENABLED \in graphics
    /\ faults = 0
    /\ gens = <<>>
    /\ ptask = [i \in DOMAIN SplitTasks |-> [st |-> "pending", err |-> "", errAt |-> 0]]
    /\ bucket = [f \in Chroms \X Gens |-> NoFile]
    /\ bucketWriters = [f \in Chroms \X Gens |-> {}]
    /\ mtasks = <<>>
    /\ mtask = <<>>
    /\ \E old \in dirs :
          /\ ino = [n \in Inodes |->
                       IF n = OldInode /\ old # {}
                       THEN [hdr |-> TRUE, rows |-> OldRows] ELSE NoContent]
          /\ rfile = [f \in ResultPaths |-> IF f \in old THEN OldInode ELSE 0]
          /\ raw = [f \in ResultPaths |-> IF f \in old THEN OldRows ELSE <<>>]
    /\ resWriters = [f \in ResultPaths |-> {}]
    /\ scale_list = EmptyDict
    /\ ntasks = <<>>
    /\ ntask = <<>>
    /\ tfile = [f \in ResultPaths |-> 0]
    /\ tier = [f \in Groups \X ResultPaths |-> NoFile]
    /\ png = {}
    /\ normWriters = [f \in ResultPaths |-> {}]

\* every VCF of the model under well-formed pair lists in an empty out_dir
\* without graphics; the one-record VCFs under every pair list, with and
\* without graphics, in every out_dir of the model; and one SNP of every
\* genotype counts under the pair 1_2
Init ==
    \/ Start(Sources, GenSpecs, PairLists, {FALSE}, {{}})
    \/ Start(OneRecordSources, GenSpecs, AnyPairLists, BOOLEAN, OldDirs)
    \/ Start(GenotypeSources, {"/1/a/2/b/"}, {<<"1_2">>}, {FALSE}, {{}})

\* pyrelfit, lines 230-239, and filter_and_split, lines 86-95: the
\* generation specification is parsed before the Pool of stage 1 is made; a
\* ValueError of parse_generations ends the run.  For the specifications of
\* GenSpecs that parse, gens.keys() is GenOrder.
filter_and_split ==
    /\ pc = "start"
    /\ LET parsed == parse_generations(Samples, generations)
       IN  IF parsed.err # ""
           THEN pc' = "crashed" /\ UNCHANGED gens
           ELSE pc' = "filter_and_split" /\ gens' = parsed.map
    /\ UNCHANGED <<inputs, faults, ptask, bucket, bucketWriters, stage2, ino, rfile, stage3>>

Running(tasks) == Cardinality({i \in DOMAIN tasks : tasks[i].st \notin {"pending", "done"}})

\* Pool.map hands the tasks out in list order to at most Cores workers
MayStart(tasks, i) ==
    /\ tasks[i].st = "pending"
    /\ \A j \in 1..(i - 1) : tasks[j].st # "pending"
    /\ Running(tasks) < Cores

\* filter_split_unit, lines 65-69: VCF(...) opens the source (it may raise,
\* which line 81 catches), then the bucket is opened for append
PartStart(i) ==
    /\ pc = "filter_and_split"
    /\ MayStart(ptask, i)
    /\ LET f == <<SplitTasks[i].chrom, SplitTasks[i].gen>>
       IN  \/ /\ faults < MaxFaults
              /\ faults' = faults + 1
              /\ ptask' = [ptask EXCEPT ![i] = [st |-> "done", err |-> "source", errAt |-> 0]]
              /\ UNCHANGED <<bucket, bucketWriters>>
           \/ /\ ptask' = [ptask EXCEPT ![i].st = "running"]
              /\ bucket' = [bucket EXCEPT ![f].exists = TRUE]
              /\ bucketWriters' = [bucketWriters EXCEPT ![f] = @ \cup {i}]
              /\ UNCHANGED faults
    /\ UNCHANGED <<pc, inputs, gens, stage2, ino, rfile, stage3>>

\* filter_split_unit, lines 70-82: the loop over vcf(chrom).  The decoder may
\* raise at record k + 1; the except clause is outside the loop, so the rows
\* of records 1..k are kept and the task ends.
filter_split_unit(i) ==
    /\ pc = "filter_and_split"
    /\ ptask[i].st = "running"
    /\ LET t == SplitTasks[i]
           f == <<t.chrom, t.gen>>
           records == vcf[t.chrom]
       IN  \E k \in 0..Len(records) :
              /\ bucket' = [bucket EXCEPT ![f].rows = @ \o BucketRows(records, t.gen, 1, k)]
              /\ IF k = Len(records)
                 THEN /\ ptask' = [ptask EXCEPT ![i].st = "done"]
                      /\ UNCHANGED faults
                 ELSE /\ faults < MaxFaults
                      /\ faults' = faults + 1
                      /\ ptask' = [ptask EXCEPT ![i] =
                                      [st |-> "done", err |-> "decode", errAt |-> k + 1]]
    /\ UNCHANGED <<pc, inputs, gens, bucketWriters, stage2, ino, rfile, stage3>>

\* a map that returned as soon as one task was done
AnyDone(tasks) == \E i \in DOMAIN tasks : tasks[i].st = "done"

\* pool.map blocks until every task of the list is done (lines 97, 132, 211)
AllDone(tasks) == \A i \in DOMAIN tasks : tasks[i].st = "done"

---------------------------------------------------------------------------
(* Stage 2: merge_and_compute / process_pair / list_to_dict_max            *)

\* an f1 that gets the pseudo-frequency of f2 when no allele was called
Freq1Pseudo(ac, total) == IF total # 0 THEN Rat(ac, total) ELSE <<1, PseudoDen>>

\* lines 116-117
Freq1(ac, total) == IF total # 0 THEN Rat(ac, total) ELSE Zero
Freq2(ac, total) == IF total # 0 THEN Rat(ac, total) ELSE <<1, PseudoDen>>

\* 2 * f1 ** 2 - f1 * f2 ** 2
Denominator(f1, f2) == RSub(RMul(<<2, 1>>, RMul(f1, f1)), RMul(f1, RMul(f2, f2)))

\* line 119 raises ZeroDivisionError: f1 is not 0 and the denominator is
DivisionByZero(r1, r2) ==
    LET f1 == Freq1(r1.alt_count, r1.total)
        f2 == Freq2(r2.alt_count, r2.total)
    IN  f1 # Zero /\ Denominator(f1, f2) = Zero

\* line 119, when it does not raise
Weight(r1, r2) ==
    LET f1 == Freq1(r1.alt_count, r1.total)
        f2 == Freq2(r2.alt_count, r2.total)
    IN  IF f1 # Zero THEN RDiv(RMul(f2, f2), Denominator(f1, f2)) ELSE Zero

Min(a, b) == IF a < b THEN a ELSE b

\* the first pair of zip(b1, b2) at which line 119 raises, 0 if none does
FirstRaise(b1, b2) ==
    LET bad == {i \in 1..Min(Len(b1), Len(b2)) : DivisionByZero(b1[i], b2[i])}
    IN  IF bad = {} THEN 0 ELSE CHOOSE i \in bad : \A j \in bad : i <= j

\* the rows lines 111-122 write: one per pair of zip(b1, b2), up to a raise
PairRows(b1, b2) ==
    LET stop == FirstRaise(b1, b2)
        n == IF stop = 0 THEN Min(Len(b1), Len(b2)) ELSE stop - 1
    IN  [i \in 1..n |->
            [Pos |-> b1[i].Pos, Ref |-> b1[i].Ref, Alt |-> b1[i].Alt,
             RF |-> Weight(b1[i], b2[i])]]

\* a maximum that starts from the first weight instead of 0.0
RECURSIVE MaxWOfRows(_, _)
MaxWOfRows(rows, n) ==
    IF n = 0 THEN Zero
    ELSE IF n = 1 THEN rows[1].RF
    ELSE RMax(MaxWOfRows(rows, n - 1), rows[n].RF)

\* max_w after the loop: 0.0, then max(max_w, w) row by row
RECURSIVE MaxW(_, _)
MaxW(rows, n) == IF n = 0 THEN Zero ELSE RMax(MaxW(rows, n - 1), rows[n].RF)

\* an aggregation in which the last value of a key wins
RECURSIVE list_to_dict_last(_)
list_to_dict_last(lst) ==
    IF lst = <<>> THEN EmptyDict
    ELSE LET max_dict == list_to_dict_last(SubSeq(lst, 1, Len(lst) - 1))
             value == lst[Len(lst)][1]
             key == lst[Len(lst)][2]
         IN  [k \in DOMAIN max_dict \cup {key} |-> IF k # key THEN max_dict[k] ELSE value]

\* list_to_dict_max(lst); max(-inf, value) is value
RECURSIVE list_to_dict_max(_)
list_to_dict_max(lst) ==
    IF lst = <<>> THEN EmptyDict
    ELSE LET max_dict == list_to_dict_max(SubSeq(lst, 1, Len(lst) - 1))
             value == lst[Len(lst)][1]
             key == lst[Len(lst)][2]
         IN  [k \in DOMAIN max_dict \cup {key} |->
                 IF k # key THEN max_dict[k]
                 ELSE IF key \in DOMAIN max_dict THEN RMax(max_dict[key], value)
                 ELSE value]

\* [(c, p, ...) for c in chromosomes for p in generation_pairs]
MergeTasks(chromosomes, pairs) ==
    LET cs == SortedSeq(chromosomes)
        n == Len(pairs)
    IN  [i \in 1..(Len(cs) * n) |->
            [chrom |-> cs[((i - 1) \div n) + 1], pair |-> pairs[((i - 1) % n) + 1]]]

\* os.path.exists(temp_dir/tmp.<chrom>.<gen>.csv), for any label
BucketExists(chrom, gen) == <<chrom, gen>> \in DOMAIN bucket /\ bucket[<<chrom, gen>>].exists

\* pool.map of filter_and_split has returned (line 97); merge_and_compute
\* globs the buckets of the first pair's first generation and builds its tasks
merge_and_compute ==
    /\ pc = "filter_and_split"
    /\ AllDone(ptask)
    /\ LET gen == SplitPair(generation_pairs[1])[1]
           chromosomes == {c \in Chroms : BucketExists(c, gen)}
           tasks == MergeTasks(chromosomes, generation_pairs)
       IN  /\ mtasks' = tasks
           /\ mtask' = [j \in DOMAIN tasks |->
                           [st |-> "pending", err |-> "", out |-> 0, max_w |-> Zero]]
    /\ pc' = "merge_and_compute"
    /\ UNCHANGED <<inputs, faults, stage1, ino, rfile, resWriters, raw, scale_list, stage3>>

\* process_pair, lines 101-107: the pair is unpacked into two labels (a
\* ValueError when the split gives another number of parts), the two buckets
\* are opened, then the result file is opened for writing
PairStart(j) ==
    /\ pc = "merge_and_compute"
    /\ MayStart(mtask, j)
    /\ LET t == mtasks[j]
           g == SplitPair(t.pair)
           f == <<t.chrom, t.pair>>
       IN  IF Len(g) # 2
           THEN /\ mtask' = [mtask EXCEPT ![j].st = "done", ![j].err = "ValueError"]
                /\ UNCHANGED <<rfile, ino, resWriters>>
           ELSE IF BucketExists(t.chrom, g[1]) /\ BucketExists(t.chrom, g[2])
           THEN LET n == OpenW(rfile, f, j)
                IN  /\ rfile' = [rfile EXCEPT ![f] = n]
                    /\ ino' = [ino EXCEPT ![n] = NoContent]
                    /\ mtask' = [mtask EXCEPT ![j].st = "running", ![j].out = n]
                    /\ resWriters' = [resWriters EXCEPT ![f] = @ \cup {j}]
           ELSE /\ mtask' = [mtask EXCEPT ![j].st = "done", ![j].err = "FileNotFoundError"]
                /\ UNCHANGED <<rfile, ino, resWriters>>
    /\ UNCHANGED <<pc, inputs, faults, stage1, mtasks, raw, scale_list, stage3>>

\* process_pair, lines 108-124: the header, the loop over zip(f1, f2), the
\* return.  A ZeroDivisionError leaves the rows written before it.
process_pair(j) ==
    /\ pc = "merge_and_compute"
    /\ mtask[j].st = "running"
    /\ LET t == mtasks[j]
           g == SplitPair(t.pair)
           b1 == bucket[<<t.chrom, g[1]>>].rows
           b2 == bucket[<<t.chrom, g[2]>>].rows
           rows == PairRows(b1, b2)
       IN  /\ ino' = [ino EXCEPT ![mtask[j].out] = Flush(@, TRUE, rows)]
           /\ raw' = [raw EXCEPT ![<<t.chrom, t.pair>>] = rows]
           /\ mtask' = [mtask EXCEPT
                  ![j].st = "done",
                  ![j].err = IF FirstRaise(b1, b2) # 0 THEN "ZeroDivisionError" ELSE "",
                  ![j].max_w = MaxW(rows, Len(rows))]
    /\ UNCHANGED <<pc, inputs, faults, stage1, mtasks, rfile, resWriters, scale_list, stage3>>

Raised(tasks) == \E i \in DOMAIN tasks : tasks[i].err # ""

\* pool.map re-raises a task's exception in the driver once every task of
\* the map is done; nothing in pyrelfit() catches it
MergeCrash ==
    /\ pc = "merge_and_compute"
    /\ AllDone(mtask)
    /\ Raised(mtask)
    /\ pc' = "crashed"
    /\ UNCHANGED <<inputs, faults, stage1, stage2, ino, rfile, stage3>>

\* max_vals, the list pool.map returns (line 132)
MaxVals == [j \in DOMAIN mtask |-> <<mtask[j].max_w, mtasks[j].pair>>]

---------------------------------------------------------------------------
(* Stage 3: normalise / normalize_file                                     *)

\* files (lines 205-208): for each pair of the list, what the glob
\* out_dir/*.<pair>.csv matches
RECURSIVE NormFiles(_, _)
NormFiles(pairs, files) ==
    IF pairs = <<>> THEN <<>>
    ELSE LET pair == pairs[1]
             cs == SortedSeq({c \in AllChroms : files[<<c, pair>>] # 0})
         IN  [i \in 1..Len(cs) |-> [chrom |-> cs[i], pair |-> pair]]
             \o NormFiles(Tail(pairs), files)

\* Python's None, which is no number
None == <<0, 0>>

\* scale_list.get(p)
DictGet(d, k) == IF k \in DOMAIN d THEN d[k] ELSE None

\* pool.map of merge_and_compute has returned every task's result (line 132):
\* list_to_dict_max, then normalise builds its tasks (lines 205-211)
normalise ==
    /\ pc = "merge_and_compute"
    /\ AllDone(mtask)
    /\ ~Raised(mtask)
    /\ LET scale == list_to_dict_max(MaxVals)
           files == NormFiles(generation_pairs, rfile)
       IN  /\ scale_list' = scale
           /\ ntasks' = [k \in DOMAIN files |->
                            [chrom |-> files[k].chrom, pair |-> files[k].pair,
                             global_max |-> DictGet(scale, files[k].pair)]]
           /\ ntask' = [k \in DOMAIN files |->
                           [st |-> "pending", err |-> "", fin |-> 0, fout |-> 0,
                            rows |-> <<>>]]
    /\ pc' = "normalise"
    /\ UNCHANGED <<inputs, faults, stage1, mtasks, mtask, resWriters, raw, ino, rfile,
                   tfile, tier, png, normWriters>>

\* an early return that forgets the global maximum 1
NoRescaleZeroOnly(global_max) == global_max = Zero

\* line 139
NoRescale(global_max) == global_max = Zero \/ global_max = One

\* normalize_file, lines 138-142: the early return, or the result file is
\* opened for reading and <file>.tmp for writing
NormStart(k) ==
    /\ pc = "normalise"
    /\ MayStart(ntask, k)
    /\ LET t == ntasks[k]
           f == <<t.chrom, t.pair>>
       IN  IF NoRescale(t.global_max)
           THEN /\ ntask' = [ntask EXCEPT ![k].st = "done"]
                /\ UNCHANGED <<ino, tfile, normWriters>>
           ELSE IF rfile[f] = 0
           THEN /\ ntask' = [ntask EXCEPT ![k].st = "done", ![k].err = "FileNotFoundError"]
                /\ UNCHANGED <<ino, tfile, normWriters>>
           ELSE LET n == OpenW(tfile, f, MaxTasks + k)
                IN  /\ tfile' = [tfile EXCEPT ![f] = n]
                    /\ ino' = [ino EXCEPT ![n] = NoContent]
                    /\ ntask' = [ntask EXCEPT ![k].st = "open", ![k].fin = rfile[f],
                                              ![k].fout = n]
                    /\ normWriters' = [normWriters EXCEPT ![f] = @ \cup {k}]
    /\ UNCHANGED <<pc, inputs, faults, stage1, stage2, rfile, ntasks, tier, png>>

\* line 160, for every row read
Rescale(rows, global_max) ==
    [i \in DOMAIN rows |-> [rows[i] EXCEPT !.RF = RDiv(@, global_max)]]

\* normalize_file, lines 143-188: the header is read and copied, every row
\* is divided by global_max (a TypeError at the first row when global_max is
\* None) and written to <file>.tmp; with graphics the plot is saved, which
\* may raise; <file>.tmp is then closed
normalize_file(k) ==
    /\ pc = "normalise"
    /\ ntask[k].st = "open"
    /\ LET t == ntasks[k]
           content == ino[ntask[k].fin]
       IN  IF ~content.hdr
           THEN /\ ntask' = [ntask EXCEPT ![k].st = "done", ![k].err = "StopIteration"]
                /\ UNCHANGED <<ino, png, faults>>
           ELSE IF t.global_max = None /\ content.rows # <<>>
           THEN /\ ino' = [ino EXCEPT ![ntask[k].fout] = Flush(@, TRUE, <<>>)]
                /\ ntask' = [ntask EXCEPT ![k].st = "done", ![k].err = "TypeError"]
                /\ UNCHANGED <<png, faults>>
           ELSE LET rows == Rescale(content.rows, t.global_max)
                IN  /\ ino' = [ino EXCEPT ![ntask[k].fout] = Flush(@, TRUE, rows)]
                    /\ IF ~GRAPHICS_ENABLED
                       THEN /\ ntask' = [ntask EXCEPT ![k].st = "written", ![k].rows = rows]
                            /\ UNCHANGED <<png, faults>>
                       ELSE \/ /\ ntask' = [ntask EXCEPT ![k].st = "written",
                                                          ![k].rows = rows]
                               /\ png' = png \cup {<<t.chrom, t.pair>>}
                               /\ UNCHANGED faults
                            \/ /\ faults < MaxFaults
                               /\ faults' = faults + 1
                               /\ ntask' = [ntask EXCEPT ![k].st = "done",
                                                          ![k].err = "savefig"]
                               /\ UNCHANGED png
    /\ UNCHANGED <<pc, inputs, stage1, stage2, rfile, ntasks, tfile, tier, normWriters>>

\* normalize_file, line 190: os.replace(<file>.tmp, <file>)
Replace(k) ==
    /\ pc = "normalise"
    /\ ntask[k].st = "written"
    /\ LET f == <<ntasks[k].chrom, ntasks[k].pair>>
       IN  IF tfile[f] = 0
           THEN /\ ntask' = [ntask EXCEPT ![k].st = "done", ![k].err = "FileNotFoundError"]
                /\ UNCHANGED <<rfile, tfile>>
           ELSE /\ rfile' = [rfile EXCEPT ![f] = tfile[f]]
                /\ tfile' = [tfile EXCEPT ![f] = 0]
                /\ ntask' = [ntask EXCEPT
                       ![k].st = IF OUTLIERS_ENABLED THEN "replaced" ELSE "done"]
    /\ UNCHANGED <<pc, inputs, faults, stage1, stage2, ino, ntasks, tier, png, normWriters>>

\* lines 167-174: the group of a normalized value, "" if it has none
Group(v) ==
    IF RLess(<<4, 5>>, v) THEN "gt_8"
    ELSE IF RLess(<<3, 5>>, v) THEN "gt_6"
    ELSE IF RLess(<<2, 5>>, v) THEN "gt_4"
    ELSE IF RLess(<<1, 5>>, v) THEN "gt_2"
    ELSE ""

\* the entries of outlier_groups[group] after the loop
RECURSIVE Entries(_, _)
Entries(rows, group) ==
    IF rows = <<>> THEN <<>>
    ELSE (IF Group(rows[1].RF) = group THEN <<rows[1]>> ELSE <<>>)
         \o Entries(Tail(rows), group)

\* normalize_file, lines 192-201: the four group files are written
Outliers(k) ==
    /\ pc = "normalise"
    /\ ntask[k].st = "replaced"
    /\ LET f == <<ntasks[k].chrom, ntasks[k].pair>>
       IN  tier' = [p \in DOMAIN tier |->
                       IF p[2] = f
                       THEN [exists |-> TRUE, rows |-> Entries(ntask[k].rows, p[1])]
                       ELSE tier[p]]
    /\ ntask' = [ntask EXCEPT ![k].st = "done"]
    /\ UNCHANGED <<pc, inputs, faults, stage1, stage2, ino, rfile, ntasks, tfile, png,
                   normWriters>>

\* pool.map of normalise re-raises a task's exception (line 211)
NormCrash ==
    /\ pc = "normalise"
    /\ AllDone(ntask)
    /\ Raised(ntask)
    /\ pc' = "crashed"
    /\ UNCHANGED <<inputs, faults, stage1, stage2, ino, rfile, stage3>>

\* pyrelfit, lines 245-249: remove_dir_recursive(temp_dir) unless --keep-temp
Finish ==
    /\ pc = "normalise"
    /\ AllDone(ntask)
    /\ ~Raised(ntask)
    /\ \E keep_temp \in BOOLEAN :
          bucket' = IF keep_temp THEN bucket
                    ELSE [f \in DOMAIN bucket |-> NoFile]
    /\ pc' = "done"
    /\ UNCHANGED <<inputs, faults, gens, ptask, bucketWriters, stage2, ino, rfile, stage3>>

---------------------------------------------------------------------------
(* Properties                                                              *)

Started(tasks) == \E i \in DOMAIN tasks : tasks[i].st # "pending"

\* the maxima the merge-join tasks of a pair returned
PairMaxima(pair) == {mtask[j].max_w : j \in {i \in DOMAIN mtask : mtasks[i].pair = pair}}

IsGreatest(v, S) == v \in S /\ \A x \in S : RLeq(x, v)

\* the content of result file f
Content(f) == ino[rfile[f]]

\* C1: no process_pair task starts before every filter_split_unit task is
\* done; no normalize_file task starts before every process_pair task is
\* done, and the global_max a normalize_file task got is the greatest of the
\* maxima of all tasks of its pair, so no weight written for the pair on any
\* chromosome exceeds it.
C1_StagesSequenced ==
    /\ Started(mtask) => \A i \in DOMAIN ptask : ptask[i].st = "done"
    /\ Started(ntask) =>
          /\ \A j \in DOMAIN mtask : mtask[j].st = "done" /\ mtask[j].err = ""
          /\ \A k \in DOMAIN ntasks : PairMaxima(ntasks[k].pair) # {} =>
                /\ IsGreatest(ntasks[k].global_max, PairMaxima(ntasks[k].pair))
                /\ \A c \in Chroms : \A i \in DOMAIN raw[<<c, ntasks[k].pair>>] :
                      RLeq(raw[<<c, ntasks[k].pair>>][i].RF, ntasks[k].global_max)

\* C1 witness: a normalize_file task is at work on a file whose own
\* chromosome's maximum is smaller than the global_max it was given
C1_Witness ==
    \E k \in DOMAIN ntasks : \E j \in DOMAIN mtasks :
        /\ ntask[k].st = "open"
        /\ mtasks[j].pair = ntasks[k].pair
        /\ mtasks[j].chrom = ntasks[k].chrom
        /\ RLess(mtask[j].max_w, ntasks[k].global_max)

\* C2: an exception of a task never reaches the driver: whatever task of
\* whatever stage raised, the run does not end with the exception.
C2_TaskFailureIsolated ==
    (Raised(ptask) \/ Raised(mtask) \/ Raised(ntask)) => pc # "crashed"

\* C3: within each stage no file is opened for writing by two tasks: each
\* bucket by one filter_split_unit task, each result file by one process_pair
\* task, each result file's .tmp by one normalize_file task.
C3_DisjointWriters ==
    /\ \A f \in DOMAIN bucketWriters : Cardinality(bucketWriters[f]) <= 1
    /\ \A f \in ResultPaths : Cardinality(resWriters[f]) <= 1
    /\ \A f \in ResultPaths : Cardinality(normWriters[f]) <= 1

\* the denominator of line 119 for a pair of bucket rows
RowDenominator(r1, r2) ==
    Denominator(Freq1(r1.alt_count, r1.total), Freq2(r2.alt_count, r2.total))

\* C4: a process_pair task that found its buckets never raises, writes one
\* row per zipped pair, and the weight of a row whose denominator is zero or
\* negative is 0.
C4_AnomalyClamped ==
    \A j \in DOMAIN mtask :
        (pc = "merge_and_compute" /\ mtask[j].st = "done"
            /\ mtask[j].err \notin {"FileNotFoundError", "ValueError"}) =>
        LET t == mtasks[j]
            g == SplitPair(t.pair)
            b1 == bucket[<<t.chrom, g[1]>>].rows
            b2 == bucket[<<t.chrom, g[2]>>].rows
            rows == raw[<<t.chrom, t.pair>>]
        IN  /\ mtask[j].err = ""
            /\ Len(rows) = Min(Len(b1), Len(b2))
            /\ \A i \in DOMAIN rows :
                  RLeq(RowDenominator(b1[i], b2[i]), Zero) => rows[i].RF = Zero

\* C5: after a completed run every RF of every result file of a pair whose
\* global maximum is greater than 0 lies in [0, 1].
C5_UnitInterval ==
    pc = "done" =>
        \A f \in ResultPaths :
            (rfile[f] # 0 /\ RLess(Zero, DictGet(scale_list, f[2]))) =>
                \A i \in DOMAIN Content(f).rows :
                    /\ RLeq(Zero, Content(f).rows[i].RF)
                    /\ RLeq(Content(f).rows[i].RF, One)

\* the pair identifiers of max_vals
ResultPairs == {mtasks[j].pair : j \in DOMAIN mtasks}

Reverse(s) == [i \in 1..Len(s) |-> s[Len(s) + 1 - i]]

\* C6: once the maxima are aggregated, scale_list maps each pair identifier
\* of the results to the greatest maximum returned for that identifier, the
\* list taken in the opposite order gives the same dict, and every
\* normalize_file task of the pair, whatever its chromosome, divides by that
\* value.
C6_MaxPerPair ==
    (pc \in {"normalise", "done"}) =>
        /\ DOMAIN scale_list = ResultPairs
        /\ \A p \in ResultPairs : IsGreatest(scale_list[p], PairMaxima(p))
        /\ scale_list = list_to_dict_max(Reverse(MaxVals))
        /\ \A k \in DOMAIN ntasks : ntasks[k].pair \in ResultPairs =>
              ntasks[k].global_max = scale_list[ntasks[k].pair]

\* C6 witness: two chromosomes returned different maxima for one pair, the
\* greater first in the list, and the files of both were divided by it
C6_Witness ==
    /\ pc = "done"
    /\ \E j1, j2 \in DOMAIN mtasks : \E k1, k2 \in DOMAIN ntasks :
          /\ j1 < j2
          /\ mtasks[j1].pair = mtasks[j2].pair
          /\ RLess(mtask[j2].max_w, mtask[j1].max_w)
          /\ mtask[j1].max_w # One
          /\ ntasks[k1].pair = mtasks[j1].pair /\ ntasks[k1].chrom = mtasks[j1].chrom
          /\ ntasks[k2].pair = mtasks[j1].pair /\ ntasks[k2].chrom = mtasks[j2].chrom
          /\ ntasks[k1].global_max = mtask[j1].max_w
          /\ ntasks[k2].global_max = mtask[j1].max_w

\* C7: after a completed run, every result file of a pair whose global
\* maximum is neither 0 nor 1 holds the rows process_pair wrote, in their
\* order, each weight divided once by the global maximum.
C7_DividedOnce ==
    pc = "done" =>
        \A f \in ResultPaths :
            (rfile[f] # 0 /\ RLess(Zero, DictGet(scale_list, f[2]))
                /\ DictGet(scale_list, f[2]) # One) =>
                Content(f) = [hdr |-> TRUE, rows |-> Rescale(raw[f], scale_list[f[2]])]

\* C8: when the decoder raised at one record of a filter_split_unit task,
\* every later record that is a SNP with an alternate allele has its row in
\* the bucket.
C8_DecodeErrorSkipsOneRecord ==
    \A i \in DOMAIN ptask :
        (pc = "filter_and_split" /\ ptask[i].st = "done" /\ ptask[i].err = "decode") =>
        LET t == SplitTasks[i]
            records == vcf[t.chrom]
            rows == bucket[<<t.chrom, t.gen>>].rows
        IN  \A n \in (ptask[i].errAt + 1)..Len(records) :
                (records[n].is_snp /\ records[n].ALT # <<>>) =>
                    \E r \in DOMAIN rows : rows[r].Pos = n

\* C9: a result file whose pair has global maximum 0 or 1 is left as it was
\* when stage 3 began, however many normalize_file tasks it is given to: no
\* .tmp is ever opened for it, its path names the inode process_pair created
\* (or the one out_dir held before the run), and the content is what was
\* written there.
C9_NoRescaleLeavesFile ==
    \A k \in DOMAIN ntasks :
        (ntasks[k].global_max = Zero \/ ntasks[k].global_max = One) =>
            LET f == <<ntasks[k].chrom, ntasks[k].pair>>
            IN  /\ normWriters[f] = {}
                /\ tfile[f] = 0
                /\ rfile[f] \in resWriters[f] \cup {OldInode}
                /\ Content(f) = [hdr |-> TRUE, rows |-> raw[f]]

\* C9 witness: two normalize_file tasks have run on one file with rows whose
\* pair has global maximum 1
C9_Witness ==
    \E k1, k2 \in DOMAIN ntasks :
        /\ k1 # k2
        /\ ntasks[k1].chrom = ntasks[k2].chrom /\ ntasks[k1].pair = ntasks[k2].pair
        /\ ntasks[k1].global_max = One
        /\ ntask[k1].st = "done" /\ ntask[k2].st = "done"
        /\ raw[<<ntasks[k1].chrom, ntasks[k1].pair>>] # <<>>

\* the group files that hold row
GroupsHolding(f, row) ==
    {g \in Groups : tier[<<g, f>>].exists
                    /\ \E i \in DOMAIN tier[<<g, f>>].rows : tier[<<g, f>>].rows[i] = row}

\* C10: with outliers enabled, after a completed run every row of every
\* result file is in the one group file of its value if the value is above
\* 0.2, and in none otherwise, whatever the pair's global maximum.
C10_OutlierPartition ==
    (pc = "done" /\ OUTLIERS_ENABLED) =>
        \A f \in ResultPaths : rfile[f] # 0 =>
            \A i \in DOMAIN Content(f).rows :
                LET row == Content(f).rows[i]
                IN  GroupsHolding(f, row) =
                        IF Group(row.RF) = "" THEN {} ELSE {Group(row.RF)}

\* the file has its header and, row for row, position, reference and
\* alternate of rows
Complete(content, rows) ==
    /\ content.hdr
    /\ Len(content.rows) = Len(rows)
    /\ \A i \in DOMAIN rows :
          /\ content.rows[i].Pos = rows[i].Pos
          /\ content.rows[i].Ref = rows[i].Ref
          /\ content.rows[i].Alt = rows[i].Alt

\* C11: at every moment of the Normalizer stage every result file given to
\* a normalize_file task is complete: it has its header and every row that
\* process_pair wrote, never a part of them.
C11_AtomicReplace ==
    pc = "normalise" =>
        \A k \in DOMAIN ntasks :
            LET f == <<ntasks[k].chrom, ntasks[k].pair>>
            IN  rfile[f] # 0 => Complete(Content(f), raw[f])

\* what parse_generations gives for the -g string of the run
Parsed == parse_generations(Samples, generations)
\* the labels of the generation specification
Labels == {Parsed.map[i].id : i \in DOMAIN Parsed.map}

\* an entry that is not two labels of the specification joined by "_"
MalformedPair(pair) ==
    LET g == SplitPair(pair)
    IN  Len(g) # 2 \/ g[1] \notin Labels \/ g[2] \notin Labels

MalformedConfiguration ==
    \/ Parsed.err # ""
    \/ \E i \in DOMAIN generation_pairs : MalformedPair(generation_pairs[i])

\* C12: under a malformed generation specification or a malformed pair list
\* the run does not complete, and no filter_split_unit task ever starts, no
\* bucket and no result file is ever written.
C12_ConfigErrorBeforeStages ==
    MalformedConfiguration =>
        /\ pc # "done"
        /\ ~Started(ptask)
        /\ \A f \in DOMAIN bucket : ~bucket[f].exists /\ bucketWriters[f] = {}
        /\ \A f \in ResultPaths : resWriters[f] = {}

\* C13: parse_generations never returns a mapping in which a label has an
\* empty sample list: whenever it has returned, every label of gens has at
\* least one sample.
C13_NoEmptyGeneration ==
    pc = "filter_and_split" => \A i \in DOMAIN gens : gens[i].samples # <<>>

\* the records of a chromosome that are SNPs with an alternate allele
Kept(records) ==
    {n \in DOMAIN records : records[n].is_snp /\ records[n].ALT # <<>>}

\* C14: the bucket of a filter_split_unit task that is done without error
\* holds one row per record of its chromosome that is a SNP with an
\* alternate allele, in source order, each with the record's position,
\* reference, first alternate and the counts of the task's generation; and
\* no row of any bucket comes from a record that is not such a SNP.
C14_BucketIsFilteredSource ==
    /\ \A i \in DOMAIN ptask :
          LET t == SplitTasks[i]
              records == vcf[t.chrom]
              b == bucket[<<t.chrom, t.gen>>]
          IN  (ptask[i].st = "done" /\ ptask[i].err = "" /\ b.exists) =>
                  /\ {b.rows[r].Pos : r \in DOMAIN b.rows} = Kept(records)
                  /\ Len(b.rows) = Cardinality(Kept(records))
                  /\ \A r \in DOMAIN b.rows :
                        /\ r > 1 => b.rows[r - 1].Pos < b.rows[r].Pos
                        /\ b.rows[r] =
                              [Pos |-> b.rows[r].Pos,
                               Ref |-> records[b.rows[r].Pos].REF,
                               Alt |-> records[b.rows[r].Pos].ALT[1],
                               alt_count |-> compute_counts(records[b.rows[r].Pos],
                                                            t.gen).alt_count,
                               total |-> compute_counts(records[b.rows[r].Pos],
                                                        t.gen).total]
    /\ \A f \in DOMAIN bucket : \A r \in DOMAIN bucket[f].rows :
          bucket[f].rows[r].Pos \in Kept(vcf[f[1]])

\* C14 witness: a task is done without error on a chromosome whose first
\* record is not a SNP (or has no alternate allele) and whose second is a
\* SNP with one, and its bucket holds the one row of the second
C14_Witness ==
    \E i \in DOMAIN ptask :
        LET t == SplitTasks[i]
            b == bucket[<<t.chrom, t.gen>>]
        IN  /\ ptask[i].st = "done" /\ ptask[i].err = "" /\ b.exists
            /\ Len(vcf[t.chrom]) = 2
            /\ Kept(vcf[t.chrom]) = {2}
            /\ Len(b.rows) = 1 /\ b.rows[1].Pos = 2

\* the normalize_file tasks given result file f
TasksOn(f) == {k \in DOMAIN ntasks : <<ntasks[k].chrom, ntasks[k].pair>> = f}

\* what normalize_file makes of a file with these rows for this global_max
\* when both toggles are off
Plain(rows, global_max) ==
    [hdr |-> TRUE,
     rows |-> IF global_max = Zero \/ global_max = One THEN rows
              ELSE Rescale(rows, global_max)]

\* C15: when the one normalize_file task of a result file has ended, with a
\* number as global_max, the file holds what the task gives with both
\* toggles off, whatever the toggles are and whether or not the plot could
\* be saved.
C15_TogglesLeaveOutput ==
    \A f \in ResultPaths :
        \A k \in TasksOn(f) :
            (TasksOn(f) = {k} /\ ntask[k].st = "done" /\ ntasks[k].global_max # None) =>
                Content(f) = Plain(raw[f], ntasks[k].global_max)

\* C16: a process_pair task that found its buckets ends without an error,
\* and its result file has one row per index up to the length of the
\* shorter bucket, row i with position, reference and alternate of row i of
\* bucket 1 and the weight of the counts of row i of both buckets.
C16_PositionalZip ==
    \A j \in DOMAIN mtask :
        (pc = "merge_and_compute" /\ mtask[j].st = "done"
            /\ mtask[j].err \notin {"FileNotFoundError", "ValueError"}) =>
        LET t == mtasks[j]
            g == SplitPair(t.pair)
            b1 == bucket[<<t.chrom, g[1]>>].rows
            b2 == bucket[<<t.chrom, g[2]>>].rows
            rows == raw[<<t.chrom, t.pair>>]
        IN  /\ mtask[j].err = ""
            /\ Len(rows) = Min(Len(b1), Len(b2))
            /\ \A i \in DOMAIN rows :
                  rows[i] = [Pos |-> b1[i].Pos, Ref |-> b1[i].Ref, Alt |-> b1[i].Alt,
                             RF |-> Weight(b1[i], b2[i])]

\* f1 of line 116 is 0: no alternate allele counted, or no allele called
NoAlt(r1) == r1.alt_count = 0 \/ r1.total = 0

\* C17: in a process_pair task that has run its loop, every row written
\* from a bucket-1 record with altCount 0 or totalAlleles 0 has weight 0,
\* whatever the counts of the bucket-2 record, and a ZeroDivisionError never
\* comes from such a record.
C17_ZeroFrequencyZeroWeight ==
    \A j \in DOMAIN mtask :
        (pc = "merge_and_compute" /\ mtask[j].st = "done"
            /\ mtask[j].err \notin {"FileNotFoundError", "ValueError"}) =>
        LET t == mtasks[j]
            g == SplitPair(t.pair)
            b1 == bucket[<<t.chrom, g[1]>>].rows
            b2 == bucket[<<t.chrom, g[2]>>].rows
            rows == raw[<<t.chrom, t.pair>>]
        IN  /\ \A i \in DOMAIN rows : NoAlt(b1[i]) => rows[i].RF = Zero
            /\ mtask[j].err = "" =>
                  \A i \in 1..Min(Len(b1), Len(b2)) : NoAlt(b1[i]) => i \in DOMAIN rows
            /\ mtask[j].err = "ZeroDivisionError" => ~NoAlt(b1[Len(rows) + 1])

\* C17 witness: weight 0 was written for a record with altCount 0 of 4
\* alleles against a record with no allele called
C17_Witness ==
    \E j \in DOMAIN mtask :
        LET t == mtasks[j]
            g == SplitPair(t.pair)
            rows == raw[<<t.chrom, t.pair>>]
        IN  /\ pc = "merge_and_compute"
            /\ mtask[j].st = "done" /\ mtask[j].err = ""
            /\ \E i \in DOMAIN rows :
                  /\ bucket[<<t.chrom, g[1]>>].rows[i].alt_count = 0
                  /\ bucket[<<t.chrom, g[1]>>].rows[i].total = 4
                  /\ bucket[<<t.chrom, g[2]>>].rows[i].total = 0
                  /\ rows[i].RF = Zero

\* the weights process_pair wrote to result file f
Weights(f) == {raw[f][i].RF : i \in DOMAIN raw[f]}

\* C18: the maximum a process_pair task returned is the greatest of 0 and
\* the weights it wrote; once aggregated, the maximum of a pair is at least
\* every weight written for the pair on every chromosome, and the files of
\* a pair whose weights are all at most 0 have global maximum 0 and are left
\* as process_pair wrote them.
C18_MaximumFlooredAtZero ==
    /\ \A j \in DOMAIN mtask :
          (mtask[j].st = "done" /\ mtask[j].err = "") =>
              IsGreatest(mtask[j].max_w,
                         {Zero} \cup Weights(<<mtasks[j].chrom, mtasks[j].pair>>))
    /\ (pc \in {"normalise", "done"}) =>
          \A p \in DOMAIN scale_list :
              /\ RLeq(Zero, scale_list[p])
              /\ \A c \in Chroms : \A w \in Weights(<<c, p>>) : RLeq(w, scale_list[p])
              /\ (\A c \in Chroms : \A w \in Weights(<<c, p>>) : RLeq(w, Zero)) =>
                    /\ scale_list[p] = Zero
                    /\ \A c \in Chroms : rfile[<<c, p>>] # 0 =>
                          /\ Content(<<c, p>>) = [hdr |-> TRUE, rows |-> raw[<<c, p>>]]
                          /\ normWriters[<<c, p>>] = {}

\* C18 witness: a run is complete in which a pair has a negative weight
\* and none above 0, global maximum 0, and its file still holds the
\* negative weight
C18_Witness ==
    /\ pc = "done"
    /\ \E p \in DOMAIN scale_list : \E c \in Chroms :
          /\ scale_list[p] = Zero
          /\ \E w \in Weights(<<c, p>>) : RLess(w, Zero)
          /\ rfile[<<c, p>>] # 0
          /\ \E i \in DOMAIN Content(<<c, p>>).rows :
                RLess(Content(<<c, p>>).rows[i].RF, Zero)

\* C19: a result file of OldChrom that out_dir held before the run still
\* names the inode it named and holds the rows it held.
C19_OldFilesLeft ==
    \A p \in AllPairs :
        LET f == <<OldChrom, p>>
        IN  raw[f] # <<>> =>
                /\ rfile[f] = OldInode
                /\ Content(f) = [hdr |-> TRUE, rows |-> OldRows]

---------------------------------------------------------------------------
Next ==
    \/ filter_and_split
    \/ \E i \in DOMAIN SplitTasks : PartStart(i)
    \/ \E i \in DOMAIN SplitTasks : filter_split_unit(i)
    \/ merge_and_compute
    \/ \E j \in DOMAIN mtask : PairStart(j)
    \/ \E j \in DOMAIN mtask : process_pair(j)
    \/ MergeCrash
    \/ normalise
    \/ \E k \in DOMAIN ntask : NormStart(k)
    \/ \E k \in DOMAIN ntask : normalize_file(k)
    \/ \E k \in DOMAIN ntask : Replace(k)
    \/ \E k \in DOMAIN ntask : Outliers(k)
    \/ NormCrash
    \/ Finish

Spec == Init /\ [][Next]_vars

---------------------------------------------------------------------------
(* parse_generations alone, over the -g strings of AnyGenSpecs             *)

InitGen ==
    Start({[c \in Chroms |-> <<>>]}, AnyGenSpecs, {<<"1_2">>}, {FALSE}, {{}})

NextGen == filter_and_split

SpecGen == InitGen /\ [][NextGen]_vars

====
